---- MODULE Spec2Model ----
(***************************************************************************)
(* The MathSnip Texo inference daemon (src/backends/texo/inference.py).    *)
(*                                                                         *)
(* Daemon instances are started with --server; each one walks through     *)
(* run_server line by line (pc), shares the two endpoint artifacts         *)
(* (SOCKET_PATH, PID_FILE) with every other instance, and can receive      *)
(* SIGTERM/SIGINT at any point after its handlers are installed.  Clients  *)
(* connect through the socket file and send one payload each.              *)
(***************************************************************************)
EXTENDS Integers, Sequences, FiniteSets, TLC

\* ------------------------------------------------------------------ bounds
MaxConns == 2
MaxSignals == 1
MaxLen == 6

\* ------------------------------------------------------- program constants
ListenBacklog == 1

Procs == {"d1", "d2"}
Conns == 1 .. MaxConns

Absent == "absent"
Stale == "stale"

Unread == <<"unread">>

\* Request payloads: sequences of bytes.  "0xFF" is a byte that is not valid
\* UTF-8; " " and "\n" are whitespace.
Whitespace == {" ", "\n"}
Payloads ==
    { <<>>, <<"\n">>, <<"i", "\n">>, <<" ", "n">>, <<"b">>, <<"u">>, <<"0xFF">> }

\* The filesystem seen by the daemon: "." is the working directory, "i" a
\* readable image, "b" a file that is no image, "u" a file below a directory
\* that may not be searched (stat fails with EACCES).  Every other path,
\* the empty one included, does not exist.
FsFiles == { <<".">>, <<"i">>, <<"b">>, <<"u">> }
FsUnstatable == { <<"u">> }
FsImages == { <<"i">> }

FsExists(path) == path \in FsFiles

\* ------------------------------------------------------------ conversions
\* bytes.decode('utf-8'): raises on an invalid byte, else the same characters
DecodeRaises(data) == \E k \in 1 .. Len(data) : data[k] = "0xFF"
decode(data) == data

RECURSIVE lstrip(_)
lstrip(s) ==
    IF s # <<>> /\ Head(s) \in Whitespace THEN lstrip(Tail(s)) ELSE s

RECURSIVE rstrip(_)
rstrip(s) ==
    IF s # <<>> /\ s[Len(s)] \in Whitespace
    THEN rstrip(SubSeq(s, 1, Len(s) - 1))
    ELSE s

strip(s) == rstrip(lstrip(s))

\* pathlib.Path(s): the empty string becomes the current directory
Path(s) == IF s = <<>> THEN <<".">> ELSE s

\* Path(image_path).exists(): stat of the normalised path
PathExistsRaises(image_path) == Path(image_path) \in FsUnstatable
PathExists(image_path) == Path(image_path) \in FsFiles

\* inference(image_path, ...): Image.open(image_path) raises unless the
\* string names a readable image
InferenceRaises(image_path) == image_path \notin FsImages

\* ---------------------------------------------------------------- messages
NotFoundMsg == <<"ERROR:", "Image not found">>
ErrorMsg(e) == <<"ERROR:", e>>
LatexMsg == <<"latex">>
PartialBytes == <<"partial">>

IsErrorReply(m) == Len(m) > 0 /\ Head(m) = "ERROR:"
IsResponse(m) == m = LatexMsg \/ IsErrorReply(m)

\* a sendall either writes the whole message, or raises having written
\* nothing or an unknown part of it
SendOutcomes == {"ok", "raise", "raise_partial"}

\* ----------------------------------------------------------------- cleanup
\* os.unlink(path): removes the file, raises OSError when it is absent
Unlink(f) == [file |-> Absent, raised |-> (f = Absent)]

\* try: os.unlink(path) / except OSError: pass
TryUnlink(f) == [file |-> Unlink(f).file, raised |-> FALSE]

cleanupNoCatch(s, f) ==
    IF Unlink(s).raised
    THEN [sock |-> s, pid |-> f, raised |-> TRUE]
    ELSE [sock |-> Unlink(s).file, pid |-> Unlink(f).file,
          raised |-> Unlink(f).raised]

cleanup(s, f) ==
    [sock |-> TryUnlink(s).file, pid |-> TryUnlink(f).file,
     raised |-> TryUnlink(s).raised \/ TryUnlink(f).raised]

NoCleanup == [called |-> FALSE, pre |-> <<Absent, Absent>>,
              post |-> <<Absent, Absent>>, raised |-> FALSE]

VARIABLES
    pc,          \* where each daemon instance is in main/run_server
    exc,         \* the exception propagating through the finally blocks
    exitCode,    \* exit status of a terminated instance, -1 while it lives
    sigCount,    \* termination signals delivered to each instance
    sockFile,    \* SOCKET_PATH: absent, stale, or the instance that bound it
    pidFile,     \* PID_FILE: absent, stale, or the instance whose pid it holds
    bound,       \* server.bind returned
    listening,   \* server.listen returned
    warmed,      \* the warm-up attempt has finished
    readyOut,    \* READY has been printed
    backlog,     \* connections waiting in the listen queue
    cur,         \* conn, 0 before the first accept
    accepted,    \* the connections accept returned, in order
    image_path,  \* the local image_path
    conn,        \* every client connection
    lastCleanup, \* the latest call of cleanup()
    heldAtStart, \* the instance that held the endpoint when this one started
    model,       \* what load_model gave: none yet, compiled, eager, or failed
    env,         \* the installation: does torch.compile / the warm-up raise
    shot,        \* the single-shot invocation of main
    latex,       \* the argument of format_latex
    formatted,   \* format_latex(latex)
    reformatted  \* format_latex(format_latex(latex))

daemonVars == <<pc, exc, exitCode, sigCount, sockFile, pidFile, bound,
                listening, warmed, readyOut, backlog, cur, accepted,
                image_path, conn, lastCleanup, heldAtStart>>
fmtVars == <<latex, formatted, reformatted>>
auxVars == <<env, shot, fmtVars>>

vars == <<daemonVars, model, auxVars>>

fsVars == <<sockFile, pidFile, lastCleanup>>
srvVars == <<bound, listening, warmed, readyOut, heldAtStart>>
connVars == <<backlog, cur, accepted, image_path, conn>>

NoConn ==
    [server |-> "none", data |-> Unread, sent |-> <<>>, closed |-> FALSE,
     recognized |-> FALSE, failed |-> "none", errSend |-> "none"]

\* what every run starts from: no instance running yet, and the two paths
\* either free or holding what a crashed earlier instance left
InitRest ==
    /\ exc = [p \in Procs |-> "none"]
    /\ exitCode = [p \in Procs |-> -1]
    /\ sigCount = [p \in Procs |-> 0]
    /\ sockFile \in {Absent, Stale}
    /\ pidFile \in {Absent, Stale}
    /\ bound = [p \in Procs |-> FALSE]
    /\ listening = [p \in Procs |-> FALSE]
    /\ warmed = [p \in Procs |-> FALSE]
    /\ readyOut = [p \in Procs |-> FALSE]
    /\ backlog = [p \in Procs |-> <<>>]
    /\ cur = [p \in Procs |-> 0]
    /\ accepted = [p \in Procs |-> <<>>]
    /\ image_path = [p \in Procs |-> <<>>]
    /\ conn = [c \in Conns |-> NoConn]
    /\ lastCleanup = NoCleanup
    /\ heldAtStart = [p \in Procs |-> "none"]
    /\ model = [p \in Procs |-> "none"]

\* the installations a run can meet: torch.compile works or raises, the
\* warm-up generate works or raises
Envs == [compileRaises : BOOLEAN, warmupRaises : BOOLEAN]
HealthyEnv == [compileRaises |-> FALSE, warmupRaises |-> FALSE]

NoShot == [pc |-> "unused", path |-> <<>>, exit |-> -1, loaded |-> FALSE]
Unset == <<"unset">>

\* no single-shot invocation and no separate call of format_latex in the run
NoAux ==
    /\ shot = NoShot
    /\ latex = <<>>
    /\ formatted = Unset
    /\ reformatted = Unset

\* one daemon instance is launched in the run
Init ==
    /\ pc = [p \in Procs |-> IF p = "d1" THEN "off" ELSE "unused"]
    /\ InitRest
    /\ env \in Envs
    /\ NoAux

\* two daemon instances are launched in the run, on a working installation
InitTwo ==
    /\ pc = [p \in Procs |-> "off"]
    /\ InitRest
    /\ env = HealthyEnv
    /\ NoAux

Alive(p) == pc[p] \notin {"off", "unused", "exited"}

\* p is running, has bound the socket and has not run cleanup() since
Holds(p) == Alive(p) /\ bound[p] /\ sigCount[p] = 0

StartupPcs ==
    {"cleanup", "writepid", "load", "warmup", "bind", "listen", "ready"}
HandlerPcs ==
    {"recv", "decode", "exists", "send_nf", "infer", "send", "except"}

\* the process ends: the kernel closes its sockets, nothing is unlinked
Exited(p, code) ==
    /\ pc' = [pc EXCEPT ![p] = "exited"]
    /\ exitCode' = [exitCode EXCEPT ![p] = code]
    /\ exc' = [exc EXCEPT ![p] = "none"]
    /\ conn' = [c \in Conns |->
                  IF conn[c].server = p
                  THEN [conn[c] EXCEPT !.closed = TRUE]
                  ELSE conn[c]]

\* the files after a call of cleanup(), and the record of that call
DoCleanup ==
    LET r == cleanup(sockFile, pidFile) IN
    /\ sockFile' = r.sock
    /\ pidFile' = r.pid
    /\ lastCleanup' = [called |-> TRUE, pre |-> <<sockFile, pidFile>>,
                       post |-> <<r.sock, r.pid>>, raised |-> r.raised]

\* ------------------------------------------------------------------ startup
\* main with --server: run_server installs the two signal handlers
Start(p) ==
    /\ pc[p] = "off"
    /\ pc' = [pc EXCEPT ![p] = "cleanup"]
    /\ heldAtStart' = [heldAtStart EXCEPT ![p] =
                          IF sockFile \in Procs /\ Holds(sockFile)
                          THEN sockFile ELSE "none"]
    /\ UNCHANGED <<exc, exitCode, sigCount, fsVars, bound, listening, warmed,
                   readyOut, connVars>>
    /\ UNCHANGED <<model, auxVars>>

StartupCleanupSkip(p) ==
    /\ pc[p] = "cleanup"
    /\ pc' = [pc EXCEPT ![p] = "writepid"]
    /\ UNCHANGED <<exc, exitCode, conn, sigCount, fsVars, srvVars, backlog,
                   cur, accepted, image_path, model, auxVars>>

\* cleanup() of whatever is at the two paths
StartupCleanup(p) ==
    /\ pc[p] = "cleanup"
    /\ DoCleanup
    /\ IF lastCleanup'.raised
       THEN Exited(p, 1)
       ELSE /\ pc' = [pc EXCEPT ![p] = "writepid"]
            /\ UNCHANGED <<exc, exitCode, conn>>
    /\ UNCHANGED <<sigCount, srvVars, backlog, cur, accepted, image_path>>
    /\ UNCHANGED <<model, auxVars>>

\* open(PID_FILE, 'w').write(str(os.getpid()))
WritePid(p) ==
    /\ pc[p] = "writepid"
    /\ pidFile' = p
    /\ pc' = [pc EXCEPT ![p] = "load"]
    /\ UNCHANGED <<exc, exitCode, sigCount, sockFile, lastCleanup, srvVars,
                   connVars>>
    /\ UNCHANGED <<model, auxVars>>

LoadModelSwallow(p) ==
    /\ pc[p] = "load"
    /\ \E raises \in BOOLEAN :
         /\ model' = [model EXCEPT ![p] =
                        IF raises THEN "failed"
                        ELSE IF env.compileRaises THEN "eager" ELSE "compiled"]
         /\ pc' = [pc EXCEPT ![p] = "warmup"]
    /\ UNCHANGED <<exc, exitCode, conn, sigCount, fsVars, srvVars, backlog,
                   cur, accepted, image_path, auxVars>>

\* load_model(): from_pretrained may raise, which nothing catches; a failure
\* of torch.compile is caught inside load_model and the uncompiled model is
\* returned
LoadModel(p) ==
    /\ pc[p] = "load"
    /\ \E raises \in BOOLEAN :
         IF raises
         THEN /\ model' = [model EXCEPT ![p] = "failed"]
              /\ Exited(p, 1)
         ELSE /\ model' = [model EXCEPT ![p] =
                             IF env.compileRaises THEN "eager" ELSE "compiled"]
              /\ pc' = [pc EXCEPT ![p] = "warmup"]
              /\ UNCHANGED <<exc, exitCode, conn>>
    /\ UNCHANGED <<sigCount, fsVars, srvVars, backlog, cur, accepted,
                   image_path, auxVars>>

WarmupNoCatch(p) ==
    /\ pc[p] = "warmup"
    /\ IF env.warmupRaises
       THEN /\ Exited(p, 1)
            /\ UNCHANGED warmed
       ELSE /\ warmed' = [warmed EXCEPT ![p] = TRUE]
            /\ pc' = [pc EXCEPT ![p] = "bind"]
            /\ UNCHANGED <<exc, exitCode, conn>>
    /\ UNCHANGED <<sigCount, fsVars, bound, listening, readyOut, heldAtStart,
                   backlog, cur, accepted, image_path, model, auxVars>>

\* the warm-up inference: it finishes, or raises and except Exception logs
\* "Warmup failed"; either way run_server goes on to the socket
Warmup(p) ==
    /\ pc[p] = "warmup"
    /\ env.warmupRaises \in BOOLEAN
    /\ warmed' = [warmed EXCEPT ![p] = TRUE]
    /\ pc' = [pc EXCEPT ![p] = "bind"]
    /\ UNCHANGED <<exc, exitCode, sigCount, fsVars, bound, listening,
                   readyOut, heldAtStart, connVars, model, auxVars>>

\* server.bind(SOCKET_PATH): EADDRINUSE when anything is at the path
Bind(p) ==
    /\ pc[p] = "bind"
    /\ IF sockFile = Absent
       THEN /\ sockFile' = p
            /\ bound' = [bound EXCEPT ![p] = TRUE]
            /\ pc' = [pc EXCEPT ![p] = "listen"]
            /\ UNCHANGED <<exc, exitCode, conn>>
       ELSE /\ Exited(p, 1)
            /\ UNCHANGED <<sockFile, bound>>
    /\ UNCHANGED <<sigCount, pidFile, lastCleanup, listening, warmed,
                   readyOut, heldAtStart, backlog, cur, accepted, image_path>>
    /\ UNCHANGED <<model, auxVars>>

\* server.listen(1)
Listen(p) ==
    /\ pc[p] = "listen"
    /\ listening' = [listening EXCEPT ![p] = TRUE]
    /\ pc' = [pc EXCEPT ![p] = "ready"]
    /\ UNCHANGED <<exc, exitCode, sigCount, fsVars, bound, warmed, readyOut,
                   heldAtStart, connVars>>
    /\ UNCHANGED <<model, auxVars>>

PrintReadyEarly(p) ==
    /\ pc[p] = "bind"
    /\ ~readyOut[p]
    /\ readyOut' = [readyOut EXCEPT ![p] = TRUE]
    /\ UNCHANGED <<pc, exc, exitCode, sigCount, fsVars, bound, listening,
                   warmed, heldAtStart, connVars>>
    /\ UNCHANGED <<model, auxVars>>

\* print("READY", flush=True)
PrintReady(p) ==
    /\ pc[p] = "ready"
    /\ readyOut' = [readyOut EXCEPT ![p] = TRUE]
    /\ pc' = [pc EXCEPT ![p] = "accept"]
    /\ UNCHANGED <<exc, exitCode, sigCount, fsVars, bound, listening, warmed,
                   heldAtStart, connVars>>
    /\ UNCHANGED <<model, auxVars>>

\* ------------------------------------------------------------------ clients
\* a client connects through the socket file and is queued at the instance
\* whose socket the file names
Connect(c) ==
    /\ conn[c].server = "none"
    /\ \A d \in Conns : d < c => conn[d].server # "none"
    /\ sockFile \in Procs
    /\ Alive(sockFile) /\ listening[sockFile]
    /\ Len(backlog[sockFile]) < ListenBacklog
    /\ backlog' = [backlog EXCEPT ![sockFile] = Append(@, c)]
    /\ conn' = [conn EXCEPT ![c].server = sockFile]
    /\ UNCHANGED <<pc, exc, exitCode, sigCount, fsVars, srvVars, cur,
                   accepted, image_path>>
    /\ UNCHANGED <<model, auxVars>>

\* -------------------------------------------------------------- accept loop
\* conn, _ = server.accept(): blocks until a connection is queued
Accept(p) ==
    /\ pc[p] = "accept"
    /\ backlog[p] # <<>>
    /\ cur' = [cur EXCEPT ![p] = Head(backlog[p])]
    /\ backlog' = [backlog EXCEPT ![p] = Tail(@)]
    /\ accepted' = [accepted EXCEPT ![p] = Append(@, Head(backlog[p]))]
    /\ pc' = [pc EXCEPT ![p] = "recv"]
    /\ UNCHANGED <<exc, exitCode, sigCount, fsVars, srvVars, image_path, conn>>
    /\ UNCHANGED <<model, auxVars>>

RecvNoEmptyCheck(p) ==
    /\ pc[p] = "recv"
    /\ \E data \in Payloads :
         /\ conn' = [conn EXCEPT ![cur[p]].data = data]
         /\ pc' = [pc EXCEPT ![p] = "decode"]
    /\ UNCHANGED <<exc, exitCode, sigCount, fsVars, srvVars, backlog, cur,
                   accepted, image_path>>
    /\ UNCHANGED <<model, auxVars>>

\* data = conn.recv(4096); if not data: continue
Recv(p) ==
    /\ pc[p] = "recv"
    /\ \E data \in Payloads :
         /\ conn' = [conn EXCEPT ![cur[p]].data = data]
         /\ pc' = [pc EXCEPT ![p] = IF data = <<>> THEN "close" ELSE "decode"]
    /\ UNCHANGED <<exc, exitCode, sigCount, fsVars, srvVars, backlog, cur,
                   accepted, image_path>>
    /\ UNCHANGED <<model, auxVars>>

\* image_path = data.decode('utf-8').strip()
Decode(p) ==
    /\ pc[p] = "decode"
    /\ LET data == conn[cur[p]].data IN
       IF DecodeRaises(data)
       THEN /\ conn' = [conn EXCEPT ![cur[p]].failed = "UnicodeDecodeError"]
            /\ pc' = [pc EXCEPT ![p] = "except"]
            /\ UNCHANGED image_path
       ELSE /\ image_path' = [image_path EXCEPT ![p] = strip(decode(data))]
            /\ pc' = [pc EXCEPT ![p] = "exists"]
            /\ UNCHANGED conn
    /\ UNCHANGED <<exc, exitCode, sigCount, fsVars, srvVars, backlog, cur,
                   accepted>>
    /\ UNCHANGED <<model, auxVars>>

\* if not Path(image_path).exists():
CheckExists(p) ==
    /\ pc[p] = "exists"
    /\ IF PathExistsRaises(image_path[p])
       THEN /\ conn' = [conn EXCEPT ![cur[p]].failed = "PermissionError"]
            /\ pc' = [pc EXCEPT ![p] = "except"]
       ELSE /\ pc' = [pc EXCEPT ![p] =
                        IF PathExists(image_path[p]) THEN "infer" ELSE "send_nf"]
            /\ UNCHANGED conn
    /\ UNCHANGED <<exc, exitCode, sigCount, fsVars, srvVars, backlog, cur,
                   accepted, image_path>>
    /\ UNCHANGED <<model, auxVars>>

\* conn.sendall(msg) in the try body: what the connection and pc become
SendAll(p, msg, outcome) ==
    /\ conn' = [conn EXCEPT
                  ![cur[p]].sent =
                      IF outcome = "ok" THEN Append(@, msg)
                      ELSE IF outcome = "raise_partial"
                           THEN Append(@, PartialBytes)
                           ELSE @,
                  ![cur[p]].failed =
                      IF outcome = "ok" THEN @ ELSE "BrokenPipeError"]
    /\ pc' = [pc EXCEPT ![p] = IF outcome = "ok" THEN "close" ELSE "except"]

SendNotFoundNoContinue(p) ==
    /\ pc[p] = "send_nf"
    /\ \E outcome \in SendOutcomes :
         /\ conn' = [conn EXCEPT
                       ![cur[p]].sent =
                           IF outcome = "ok" THEN Append(@, NotFoundMsg)
                           ELSE IF outcome = "raise_partial"
                                THEN Append(@, PartialBytes)
                                ELSE @,
                       ![cur[p]].failed =
                           IF outcome = "ok" THEN @ ELSE "BrokenPipeError"]
         /\ pc' = [pc EXCEPT ![p] = IF outcome = "ok" THEN "infer" ELSE "except"]
    /\ UNCHANGED <<exc, exitCode, sigCount, fsVars, srvVars, backlog, cur,
                   accepted, image_path>>
    /\ UNCHANGED <<model, auxVars>>

\* conn.sendall(b"ERROR: Image not found"); continue
SendNotFound(p) ==
    /\ pc[p] = "send_nf"
    /\ \E outcome \in SendOutcomes : SendAll(p, NotFoundMsg, outcome)
    /\ UNCHANGED <<exc, exitCode, sigCount, fsVars, srvVars, backlog, cur,
                   accepted, image_path>>
    /\ UNCHANGED <<model, auxVars>>

\* latex = inference(image_path, model, tokenizer, image_processor, device)
Infer(p) ==
    /\ pc[p] = "infer"
    /\ conn' = [conn EXCEPT
                  ![cur[p]].recognized = TRUE,
                  ![cur[p]].failed =
                      IF InferenceRaises(image_path[p]) THEN "ImageError" ELSE @]
    /\ pc' = [pc EXCEPT ![p] =
                 IF InferenceRaises(image_path[p]) THEN "except" ELSE "send"]
    /\ UNCHANGED <<exc, exitCode, sigCount, fsVars, srvVars, backlog, cur,
                   accepted, image_path>>
    /\ UNCHANGED <<model, auxVars>>

\* conn.sendall(latex.encode('utf-8'))
SendLatex(p) ==
    /\ pc[p] = "send"
    /\ \E outcome \in SendOutcomes : SendAll(p, LatexMsg, outcome)
    /\ UNCHANGED <<exc, exitCode, sigCount, fsVars, srvVars, backlog, cur,
                   accepted, image_path>>
    /\ UNCHANGED <<model, auxVars>>

\* except Exception as e: error_msg = f"ERROR: {str(e)}"; print to stderr
Except(p) ==
    /\ pc[p] = "except"
    /\ pc' = [pc EXCEPT ![p] = "send_err"]
    /\ UNCHANGED <<exc, exitCode, sigCount, fsVars, srvVars, connVars>>
    /\ UNCHANGED <<model, auxVars>>

SendErrorNoCatch(p) ==
    /\ pc[p] = "send_err"
    /\ \E outcome \in SendOutcomes :
         /\ conn' = [conn EXCEPT
                       ![cur[p]].sent =
                           IF outcome = "ok"
                           THEN Append(@, ErrorMsg(conn[cur[p]].failed))
                           ELSE @,
                       ![cur[p]].errSend =
                           IF outcome = "ok" THEN "ok" ELSE "failed"]
         /\ exc' = [exc EXCEPT ![p] = IF outcome = "ok" THEN @ ELSE "OSError"]
    /\ pc' = [pc EXCEPT ![p] = "close"]
    /\ UNCHANGED <<exitCode, sigCount, fsVars, srvVars, backlog, cur,
                   accepted, image_path>>
    /\ UNCHANGED <<model, auxVars>>

\* try: conn.sendall(error_msg.encode('utf-8')) / except: pass
SendError(p) ==
    /\ pc[p] = "send_err"
    /\ \E outcome \in SendOutcomes :
         conn' = [conn EXCEPT
                    ![cur[p]].sent =
                        IF outcome = "ok"
                        THEN Append(@, ErrorMsg(conn[cur[p]].failed))
                        ELSE IF outcome = "raise_partial"
                             THEN Append(@, PartialBytes)
                             ELSE @,
                    ![cur[p]].errSend =
                        IF outcome = "ok" THEN "ok" ELSE "failed"]
    /\ pc' = [pc EXCEPT ![p] = "close"]
    /\ UNCHANGED <<exc, exitCode, sigCount, fsVars, srvVars, backlog, cur,
                   accepted, image_path>>
    /\ UNCHANGED <<model, auxVars>>

CloseLeak(p) ==
    /\ pc[p] = "close"
    /\ pc' = [pc EXCEPT ![p] = IF exc[p] = "none" THEN "accept" ELSE "finally"]
    /\ UNCHANGED <<exc, exitCode, sigCount, fsVars, srvVars, connVars>>
    /\ UNCHANGED <<model, auxVars>>

\* finally: conn.close(), then the next iteration or the propagating exception
Close(p) ==
    /\ pc[p] = "close"
    /\ conn' = [conn EXCEPT ![cur[p]].closed = TRUE]
    /\ pc' = [pc EXCEPT ![p] = IF exc[p] = "none" THEN "accept" ELSE "finally"]
    /\ UNCHANGED <<exc, exitCode, sigCount, fsVars, srvVars, backlog, cur,
                   accepted, image_path>>
    /\ UNCHANGED <<model, auxVars>>

\* finally: cleanup(), then the process ends with the propagating exception
Finally(p) ==
    /\ pc[p] = "finally"
    /\ DoCleanup
    /\ Exited(p, IF exc[p] = "SystemExit" /\ ~lastCleanup'.raised THEN 0 ELSE 1)
    /\ UNCHANGED <<sigCount, srvVars, backlog, cur, accepted, image_path>>
    /\ UNCHANGED <<model, auxVars>>

\* ------------------------------------------------------------------ signals
SignalCount == sigCount["d1"] + sigCount["d2"]

\* SIGTERM or SIGINT: signal_handler runs cleanup() and sys.exit(0), whose
\* SystemExit is raised where the main thread was interrupted
Signal(p) ==
    /\ Alive(p)
    /\ SignalCount < MaxSignals
    /\ sigCount' = [sigCount EXCEPT ![p] = @ + 1]
    /\ DoCleanup
    /\ \/ /\ pc[p] \in StartupPcs \cup {"finally"}
          /\ Exited(p, 0)
       \/ /\ pc[p] \in {"accept", "close"}
          /\ pc' = [pc EXCEPT ![p] = "finally"]
          /\ exc' = [exc EXCEPT ![p] = "SystemExit"]
          /\ UNCHANGED <<exitCode, conn>>
       \/ /\ pc[p] \in HandlerPcs
          /\ pc' = [pc EXCEPT ![p] = "close"]
          /\ exc' = [exc EXCEPT ![p] = "SystemExit"]
          /\ UNCHANGED <<exitCode, conn>>
       \/ /\ pc[p] = "send_err"
          /\ \E sent \in BOOLEAN :
               conn' = [conn EXCEPT
                          ![cur[p]].sent =
                              IF sent
                              THEN Append(@, ErrorMsg(conn[cur[p]].failed))
                              ELSE @,
                          ![cur[p]].errSend = IF sent THEN "ok" ELSE "failed"]
          /\ pc' = [pc EXCEPT ![p] = "close"]
          /\ UNCHANGED <<exc, exitCode>>
    /\ UNCHANGED <<srvVars, backlog, cur, accepted, image_path>>
    /\ UNCHANGED <<model, auxVars>>

Next ==
    \/ \E p \in Procs :
         \/ Start(p)
         \/ StartupCleanup(p)
         \/ WritePid(p)
         \/ LoadModel(p)
         \/ Warmup(p)
         \/ Bind(p)
         \/ Listen(p)
         \/ PrintReady(p)
         \/ Accept(p)
         \/ Recv(p)
         \/ Decode(p)
         \/ CheckExists(p)
         \/ SendNotFound(p)
         \/ Infer(p)
         \/ SendLatex(p)
         \/ Except(p)
         \/ SendError(p)
         \/ Close(p)
         \/ Finally(p)
         \/ Signal(p)
    \/ \E c \in Conns : Connect(c)

Spec == Init /\ [][Next]_vars

SpecTwo == InitTwo /\ [][Next]_vars

\* ---------------------------------------------------------- single-shot mode
\* main with exactly one argument that is not --server
ShotArgs == { <<>>, <<"i">>, <<"n">>, <<"b">>, <<"u">> }

\* one single-shot invocation is made while one daemon instance runs, on a
\* working installation
InitShot ==
    /\ pc = [p \in Procs |-> IF p = "d1" THEN "off" ELSE "unused"]
    /\ InitRest
    /\ env = HealthyEnv
    /\ shot = [NoShot EXCEPT !.pc = "off"]
    /\ latex = <<>>
    /\ formatted = Unset
    /\ reformatted = Unset

ShotExit(code) == shot' = [shot EXCEPT !.pc = "exited", !.exit = code]

\* image_path = sys.argv[1]
ShotStart ==
    /\ shot.pc = "off"
    /\ \E arg \in ShotArgs : shot' = [shot EXCEPT !.pc = "check", !.path = arg]
    /\ UNCHANGED <<daemonVars, model, env, fmtVars>>

\* if not Path(image_path).exists(): print the error, sys.exit(1); an
\* exception of exists() is uncaught and ends the process with status 1 too
ShotCheck ==
    /\ shot.pc = "check"
    /\ IF PathExistsRaises(shot.path) \/ ~PathExists(shot.path)
       THEN ShotExit(1)
       ELSE shot' = [shot EXCEPT !.pc = "load"]
    /\ UNCHANGED <<daemonVars, model, env, fmtVars>>

\* model, tokenizer, image_processor, device = load_model()
ShotLoad ==
    /\ shot.pc = "load"
    /\ \E raises \in BOOLEAN :
         IF raises
         THEN ShotExit(1)
         ELSE shot' = [shot EXCEPT !.pc = "infer", !.loaded = TRUE]
    /\ UNCHANGED <<daemonVars, model, env, fmtVars>>

\* latex = inference(...); print(latex)
ShotInfer ==
    /\ shot.pc = "infer"
    /\ IF InferenceRaises(shot.path) THEN ShotExit(1) ELSE ShotExit(0)
    /\ UNCHANGED <<daemonVars, model, env, fmtVars>>

\* SIGTERM with the default disposition (no handler is installed in this
\* mode): the process is killed, status 128 + 15
ShotSignal ==
    /\ shot.pc \in {"check", "load", "infer"}
    /\ ShotExit(143)
    /\ UNCHANGED <<daemonVars, model, env, fmtVars>>

NextShot ==
    \/ Next
    \/ ShotStart
    \/ ShotCheck
    \/ ShotLoad
    \/ ShotInfer
    \/ ShotSignal

SpecShot == InitShot /\ [][NextShot]_vars

\* -------------------------------------------------------------- format_latex
\* characters: the backslash, a letter, a symbol, and whitespace
Backslash == "\\"
Alnum == {"a"}
FmtChars == {Backslash, "a", "+", " ", "\n"}
FmtWhitespace == {" ", "\n"}
LineBreak == <<Backslash, Backslash>>

\* the strings format_latex is called with: every string of FmtChars of at
\* most MaxLen characters
RECURSIVE StringsUpTo(_)
StringsUpTo(n) ==
    IF n = 0 THEN { <<>> }
    ELSE LET shorter == StringsUpTo(n - 1) IN
         shorter \cup {Append(x, ch) : x \in shorter, ch \in FmtChars}

\* latex.split(): the runs of non-whitespace characters, in order
RECURSIVE splitFrom(_, _, _)
splitFrom(s, token, tokens) ==
    IF s = <<>>
    THEN IF token = <<>> THEN tokens ELSE Append(tokens, token)
    ELSE IF Head(s) \in FmtWhitespace
         THEN splitFrom(Tail(s), <<>>,
                        IF token = <<>> THEN tokens ELSE Append(tokens, token))
         ELSE splitFrom(Tail(s), Append(token, Head(s)), tokens)

split(s) == splitFrom(s, <<>>, <<>>)

\* ''.join(new_tokens)
RECURSIVE join(_)
join(strs) == IF strs = <<>> THEN <<>> ELSE Head(strs) \o join(Tail(strs))

separatorNoNewline(token, next_token) ==
    IF token[1] = Backslash /\ next_token # <<>> /\ next_token[1] \in Alnum
    THEN << <<" ">> >>
    ELSE <<>>

separatorNoAlnumCheck(token, next_token) ==
    IF token = LineBreak
    THEN << <<"\n">> >>
    ELSE IF token[1] = Backslash /\ next_token # <<>>
         THEN << <<" ">> >>
         ELSE <<>>

\* what the loop body appends after token: '\n', ' ' or nothing
separator(token, next_token) ==
    IF token = LineBreak
    THEN << <<"\n">> >>
    ELSE IF token[1] = Backslash /\ next_token # <<>> /\ next_token[1] \in Alnum
         THEN << <<" ">> >>
         ELSE <<>>

RECURSIVE fmtLoopDropsBreak(_, _, _)
fmtLoopDropsBreak(tokens, i, new_tokens) ==
    IF i > Len(tokens) - 1
    THEN new_tokens
    ELSE fmtLoopDropsBreak(tokens, i + 1,
             IF tokens[i] = LineBreak
             THEN new_tokens \o separator(tokens[i], tokens[i + 1])
             ELSE Append(new_tokens, tokens[i])
                      \o separator(tokens[i], tokens[i + 1]))

\* for i in range(len(tokens) - 1): append the token, then its separator
RECURSIVE fmtLoop(_, _, _)
fmtLoop(tokens, i, new_tokens) ==
    IF i > Len(tokens) - 1
    THEN new_tokens
    ELSE fmtLoop(tokens, i + 1,
                 Append(new_tokens, tokens[i])
                     \o separator(tokens[i], tokens[i + 1]))

format_latexDropLast(s) ==
    IF s = <<>>
    THEN <<>>
    ELSE LET tokens == split(s) IN
         IF tokens = <<>>
         THEN <<>>
         ELSE join(fmtLoop(tokens, 1, <<>>))

format_latex(s) ==
    IF s = <<>>
    THEN <<>>
    ELSE LET tokens == split(s) IN
         IF tokens = <<>>
         THEN <<>>
         ELSE join(Append(fmtLoop(tokens, 1, <<>>), tokens[Len(tokens)]))

\* format_latex is called on some string, and then on its own result
InitFmt ==
    /\ pc = [p \in Procs |-> "unused"]
    /\ InitRest
    /\ sockFile = Absent
    /\ pidFile = Absent
    /\ env = HealthyEnv
    /\ shot = NoShot
    /\ latex \in StringsUpTo(MaxLen)
    /\ formatted = Unset
    /\ reformatted = Unset

Format ==
    /\ formatted = Unset
    /\ formatted' = format_latex(latex)
    /\ UNCHANGED <<daemonVars, model, env, shot, latex, reformatted>>

Reformat ==
    /\ formatted # Unset
    /\ reformatted = Unset
    /\ reformatted' = format_latex(formatted)
    /\ UNCHANGED <<daemonVars, model, env, shot, latex, formatted>>

NextFmt ==
    \/ Format
    \/ Reformat

SpecFmt == InitFmt /\ [][NextFmt]_vars

\* ==================================================================== claims
ServerOf(c) == conn[c].server
IsRequest(c) == conn[c].data # Unread /\ conn[c].data # <<>>
Unsignalled(c) == sigCount[ServerOf(c)] = 0
Responses(c) == {k \in 1 .. Len(conn[c].sent) : IsResponse(conn[c].sent[k])}
NoSendRaised(c) ==
    conn[c].failed # "BrokenPipeError" /\ conn[c].errSend # "failed"
EarlierClosed(p) ==
    \A k \in 1 .. Len(accepted[p]) :
        k < Len(accepted[p]) => conn[accepted[p][k]].closed

\* C1: a terminated instance has run cleanup() after its last artifact
\* write, so neither the socket file nor the PID file it wrote is left
\* behind, whichever way it ended (startup failure included).
C1_CleanupOnEveryExit ==
    \A p \in Procs :
        pc[p] = "exited" => sockFile # p /\ pidFile # p

\* C2: once a termination signal has been delivered to an instance, that
\* instance never again takes a connection from accept.
C2_NoReturnFromShutdown ==
    [][\A p \in Procs :
          sigCount[p] > 0 => ~(pc[p] = "accept" /\ pc'[p] = "recv")]_vars

\* C3: READY is printed only after the warm-up attempt has finished and the
\* socket has been bound and put in listening state.
C3_ReadyAfterListen ==
    \A p \in Procs : readyOut[p] => warmed[p] /\ bound[p] /\ listening[p]

C3_Witness ==
    \E p \in Procs : readyOut[p] /\ pc[p] = "accept"

\* C4: single-flight, in-order service: every connection accepted before the
\* latest one is closed (so the latest one's request is read, and recognised,
\* only after the earlier responses were sent and their connections closed),
\* connections are accepted in arrival order, and nothing is written to a
\* connection once it is closed.
C4_SingleFlight ==
    /\ [](\A p \in Procs :
            /\ EarlierClosed(p)
            /\ \A j, k \in 1 .. Len(accepted[p]) :
                   j < k => accepted[p][j] < accepted[p][k]
            /\ Cardinality({c \in Conns : /\ ServerOf(c) = p
                                          /\ conn[c].data # Unread
                                          /\ ~conn[c].closed}) <= 1)
    /\ [][\A c \in Conns : conn[c].closed => conn'[c] = conn[c]]_vars

C4_Witness ==
    \E p \in Procs :
        /\ Len(accepted[p]) = 2
        /\ conn[accepted[p][1]].sent # <<>>
        /\ conn[accepted[p][2]].data # Unread

\* C5: a request whose decoded, stripped path does not exist on the
\* filesystem is never passed to recognition, gets exactly the fixed
\* payload "ERROR: Image not found", and does not end the accept loop.
C5_NotFoundReply ==
    \A c \in Conns :
        (/\ IsRequest(c)
         /\ ~DecodeRaises(conn[c].data)
         /\ ~FsExists(strip(decode(conn[c].data)))
         /\ Unsignalled(c))
        => /\ ~conn[c].recognized
           /\ conn[c].closed => conn[c].sent = <<NotFoundMsg>>
           /\ pc[ServerOf(c)] \notin {"finally", "exited"}

\* C6: an empty payload gets no response bytes, its connection is closed, and
\* the daemon goes back to accept; the empty payload does not end the loop.
C6_EmptyPayload ==
    /\ [](\A c \in Conns : conn[c].data = <<>> => conn[c].sent = <<>>)
    /\ [][\A p \in Procs :
            (sigCount'[p] = sigCount[p] /\ exc[p] = "none") =>
              /\ (pc[p] = "recv" /\ conn'[cur[p]].data = <<>>)
                    => pc'[p] = "close"
              /\ (pc[p] = "close" /\ conn[cur[p]].data = <<>>
                    /\ pc'[p] # "close")
                    => pc'[p] = "accept" /\ conn'[cur[p]].closed]_vars

C6_Witness ==
    \E p \in Procs :
        /\ Len(accepted[p]) = 2
        /\ conn[accepted[p][1]].data = <<>>
        /\ conn[accepted[p][1]].closed
        /\ pc[p] = "recv"
        /\ sigCount[p] = 0

InLoopPcs == HandlerPcs \cup {"send_err", "close", "accept"}

\* C7: a failure while decoding, checking the path, recognising or sending
\* is answered with an attempt to send "ERROR: <failure>" (a failure of that
\* send is ignored), the connection is closed and the daemon returns to
\* accept; a process ends only from startup or after a termination signal.
C7_RequestFailureContained ==
    /\ [](\A c \in Conns :
            (conn[c].closed /\ conn[c].failed # "none" /\ Unsignalled(c)) =>
              /\ conn[c].errSend # "none"
              /\ conn[c].errSend = "ok" =>
                   /\ conn[c].sent[Len(conn[c].sent)] = ErrorMsg(conn[c].failed)
                   /\ IsErrorReply(conn[c].sent[Len(conn[c].sent)]))
    /\ [][\A p \in Procs :
            /\ (pc'[p] = "exited" /\ pc[p] # "exited")
                  => (pc[p] \in StartupPcs \/ sigCount'[p] > 0)
            /\ (sigCount'[p] = 0 /\ pc[p] \in InLoopPcs)
                  => /\ pc'[p] \in InLoopPcs
                     /\ (pc[p] = "except" /\ pc'[p] # pc[p])
                           => pc'[p] = "send_err"
                     /\ (pc[p] = "send_err" /\ pc'[p] # pc[p])
                           => pc'[p] = "close"
                     /\ (pc[p] = "close" /\ pc'[p] # pc[p])
                           => pc'[p] = "accept" /\ conn'[cur[p]].closed]_vars

C7_Witness ==
    \E p \in Procs :
        /\ Len(accepted[p]) = 2
        /\ conn[accepted[p][1]].failed = "BrokenPipeError"
        /\ conn[accepted[p][1]].errSend = "failed"
        /\ conn[accepted[p][1]].closed
        /\ pc[p] = "recv"
        /\ sigCount[p] = 0

\* C8 as claimed: every connection that delivered a non-empty payload has
\* exactly one response written to it when it is closed, and every accepted
\* connection is closed before the next accept.
C8_ExactlyOneResponse ==
    /\ \A c \in Conns :
           (conn[c].closed /\ IsRequest(c) /\ Unsignalled(c)) =>
               Len(conn[c].sent) = 1 /\ IsResponse(conn[c].sent[1])
    /\ \A p \in Procs : EarlierClosed(p)

\* C8 amended: at most one complete response is written to a connection that
\* delivered a non-empty payload, and exactly one (and nothing else) when no
\* send on it raised; every accepted connection is closed before the next
\* accept.
C8_AtMostOneResponse ==
    /\ \A c \in Conns :
           (conn[c].closed /\ IsRequest(c) /\ Unsignalled(c)) =>
               /\ Cardinality(Responses(c)) <= 1
               /\ NoSendRaised(c) =>
                    Len(conn[c].sent) = 1 /\ IsResponse(conn[c].sent[1])
    /\ \A p \in Procs : EarlierClosed(p)

C8_Witness ==
    \E c, d \in Conns :
        /\ conn[c].closed /\ conn[d].closed
        /\ Unsignalled(c) /\ Unsignalled(d)
        /\ conn[c].sent = <<LatexMsg>>
        /\ conn[d].failed = "BrokenPipeError"
        /\ conn[d].sent = <<>>

\* C9: an instance started while another one holds the endpoint leaves the
\* holder's socket file and PID record in place and does not get to bind.
C9_SecondInstanceFailsAtBind ==
    \A q \in Procs :
        (heldAtStart[q] # "none" /\ Holds(heldAtStart[q])) =>
            /\ sockFile = heldAtStart[q]
            /\ pidFile = heldAtStart[q]
            /\ ~bound[q]

\* C10: every call of cleanup(), whatever was at the two paths, returns
\* normally and leaves both absent, and calling it again on what it left
\* returns normally and changes nothing.
C10_CleanupIdempotent ==
    lastCleanup.called =>
        /\ ~lastCleanup.raised
        /\ lastCleanup.post = <<Absent, Absent>>
        /\ cleanup(lastCleanup.post[1], lastCleanup.post[2])
             = [sock |-> lastCleanup.post[1], pid |-> lastCleanup.post[2],
                raised |-> FALSE]

C10_Witness ==
    \E p \in Procs :
        /\ pc[p] = "exited"
        /\ readyOut[p]
        /\ sigCount[p] = 1
        /\ lastCleanup.called
        /\ lastCleanup.pre = <<Absent, Absent>>

\* C11: when loading the model raises, the instance never binds the socket,
\* never prints READY, never accepts, and ends with a non-zero exit status.
C11_LoadFailureFatal ==
    \A p \in Procs :
        model[p] = "failed" =>
            /\ pc[p] = "exited"
            /\ exitCode[p] > 0
            /\ ~bound[p] /\ ~listening[p] /\ ~readyOut[p]
            /\ accepted[p] = <<>>
            /\ sockFile # p

C11_Witness ==
    \E p \in Procs : model[p] = "failed" /\ pc[p] = "exited" /\ sigCount[p] = 0

NextStartupPc(at) ==
    CASE at = "load" -> "warmup"
      [] at = "warmup" -> "bind"
      [] at = "bind" -> "listen"
      [] at = "listen" -> "ready"
      [] at = "ready" -> "accept"

\* C16: a torch.compile that raises and a warm-up that raises do not abort
\* startup: unless from_pretrained raises or a signal arrives, every step
\* from load_model onwards leads to the next startup step, through bind and
\* READY into the accept loop.
C16_DegradedStartupGoesOn ==
    /\ [](\A p \in Procs : model[p] = "eager" => env.compileRaises)
    /\ [][\A p \in Procs :
            (/\ pc[p] \in {"load", "warmup", "bind", "listen", "ready"}
             /\ pc'[p] # pc[p]
             /\ sigCount'[p] = sigCount[p]
             /\ model'[p] # "failed")
            => /\ pc'[p] = NextStartupPc(pc[p])
               /\ pc[p] = "warmup" => warmed'[p]
               /\ pc[p] = "bind" => bound'[p]
               /\ pc[p] = "ready" => readyOut'[p]]_vars

C16_Witness ==
    \E p \in Procs :
        /\ env.compileRaises /\ env.warmupRaises
        /\ model[p] = "eager"
        /\ readyOut[p]
        /\ pc[p] = "recv"

\* C17: with no other instance running, whatever an earlier instance left at
\* the two paths is gone before the PID is written and the socket bound, so
\* bind succeeds, and once READY is printed the socket file and the PID
\* record are the new instance's.
C17_StaleNeverBlocks ==
    /\ [](\A p \in Procs :
            sigCount[p] = 0 =>
              /\ pc[p] = "writepid" => sockFile = Absent /\ pidFile = Absent
              /\ pc[p] \in {"load", "warmup", "bind"}
                    => sockFile = Absent /\ pidFile = p
              /\ (readyOut[p] /\ Alive(p)) => sockFile = p /\ pidFile = p)
    /\ [][\A p \in Procs :
            (pc[p] = "bind" /\ pc'[p] # "bind" /\ sigCount'[p] = sigCount[p])
            => pc'[p] = "listen" /\ sockFile' = p]_vars

C17_Witness ==
    \E p \in Procs :
        /\ lastCleanup.pre = <<Stale, Stale>>
        /\ readyOut[p]
        /\ pc[p] = "accept"
        /\ sockFile = p /\ pidFile = p

\* C14: the single-shot mode never creates, overwrites or removes the socket
\* file or the PID file and runs no handler, so no step of it changes the
\* artifacts or a running daemon; given a path that does not exist it exits
\* with status 1 without loading the model.
C14_SingleShotBypass ==
    /\ [](/\ (shot.pc = "exited" /\ ~FsExists(shot.path) /\ shot.exit # 143)
               => shot.exit = 1 /\ ~shot.loaded
          /\ ~FsExists(shot.path) => ~shot.loaded)
    /\ [][shot' # shot => UNCHANGED <<daemonVars, model>>]_vars

\* ------------------------------------------------- format_latex: the claims
FmtTokens == split(latex)
OutTokens == split(formatted)
Newlines(s) == {k \in DOMAIN s : s[k] = "\n"}
BreakTokens(tokens, last) == {i \in 1..last : tokens[i] = LineBreak}
AfterBreak(s, k) ==
    /\ k > 2
    /\ s[k - 1] = Backslash
    /\ s[k - 2] = Backslash
    /\ k < Len(s)
    /\ s[k + 1] \notin FmtWhitespace

StableTokens(tokens) ==
    \A i \in 1..(Len(tokens) - 1) :
        tokens[i][1] = Backslash /\ tokens[i] # LineBreak

\* C13, as stated: for every input without a line-break token, formatting
\* the output again gives the same output
C13_Idempotent ==
    (reformatted # Unset /\ BreakTokens(FmtTokens, Len(FmtTokens)) = {})
        => reformatted = formatted

\* C13, amended: for an input without a line-break token, formatting the
\* output again gives the same output exactly when every token of the output
\* but the last starts with a backslash and is not the line-break token
C13_IdempotentOnStable ==
    (reformatted # Unset /\ BreakTokens(FmtTokens, Len(FmtTokens)) = {})
        => (reformatted = formatted <=> StableTokens(OutTokens))

C13_Witness ==
    /\ reformatted # Unset
    /\ BreakTokens(FmtTokens, Len(FmtTokens)) = {}
    /\ Len(OutTokens) > 1
    /\ StableTokens(OutTokens)
    /\ reformatted = formatted

\* the reference: tokens are the maximal runs of non-whitespace characters
RefStarts(s) ==
    {k \in DOMAIN s : s[k] \notin FmtWhitespace
                      /\ (k = 1 \/ s[k - 1] \in FmtWhitespace)}
RefEnd(s, k) ==
    CHOOSE e \in k..Len(s) :
        /\ \A j \in k..e : s[j] \notin FmtWhitespace
        /\ (e = Len(s) \/ s[e + 1] \in FmtWhitespace)
RECURSIVE RefTokensFrom(_, _)
RefTokensFrom(s, starts) ==
    IF starts = {} THEN <<>>
    ELSE LET k == CHOOSE m \in starts : \A n \in starts : m <= n IN
         <<SubSeq(s, k, RefEnd(s, k))>> \o RefTokensFrom(s, starts \ {k})
RefTokens(s) == RefTokensFrom(s, RefStarts(s))

RefSeparator(current, next) ==
    IF Len(current) = 2 /\ current[1] = Backslash /\ current[2] = Backslash
    THEN <<"\n">>
    ELSE IF Head(current) = Backslash /\ Head(next) \in Alnum
         THEN <<" ">>
         ELSE <<>>
RECURSIVE RefWalk(_)
RefWalk(tokens) ==
    IF tokens = <<>> THEN <<>>
    ELSE IF Len(tokens) = 1 THEN Head(tokens)
    ELSE Head(tokens) \o RefSeparator(tokens[1], tokens[2])
             \o RefWalk(Tail(tokens))

\* C15: format_latex equals the reference pairwise walk: after each
\* non-final token a newline if it is the line-break token, else a space if
\* it starts with a backslash and the next token starts alphanumerically,
\* else nothing; the final token bare; no tokens give the empty string
C15_EqualsReferenceWalk ==
    /\ formatted # Unset => formatted = RefWalk(RefTokens(latex))
    /\ reformatted # Unset => reformatted = RefWalk(RefTokens(formatted))

C15_Witness ==
    /\ formatted # Unset
    /\ Len(FmtTokens) > 2
    /\ \E i \in 1..(Len(FmtTokens) - 1) :
           FmtTokens[i][1] = Backslash /\ FmtTokens[i + 1][1] \in Alnum
    /\ \E i \in 1..(Len(FmtTokens) - 1) :
           FmtTokens[i][1] # Backslash
    /\ formatted = RefWalk(RefTokens(latex))

StripWhitespace(s) == SelectSeq(s, LAMBDA ch : ch \notin FmtWhitespace)

\* C18: format_latex changes only whitespace: the output without its
\* whitespace is the input without its whitespace
C18_OnlyWhitespaceChanges ==
    /\ formatted # Unset
           => StripWhitespace(formatted) = StripWhitespace(latex)
    /\ reformatted # Unset
           => StripWhitespace(reformatted) = StripWhitespace(latex)

C18_Witness ==
    /\ formatted # Unset
    /\ Newlines(formatted) # {}
    /\ Len(formatted) < Len(latex)
    /\ StripWhitespace(formatted) = StripWhitespace(latex)

====
